---- MODULE Spec2Model ----
(***************************************************************************)
(* Chronovisor: the Chrono event, the ChronoSet collection, its pairing    *)
(* (FindSuccessivePairs), its serialization (Jsonify, toCsv) and the       *)
(* conversion of files into events (Map.convert).                          *)
(*                                                                         *)
(* Events are JavaScript objects: the model keeps them in a heap indexed   *)
(* by identity (1..n), and arrays are sequences of identities.  Two array  *)
(* variables of the code may name the same array object; where the code    *)
(* depends on that, the model carries it explicitly (aliased, and the      *)
(* sAlias / eAlias cases of FindSuccessivePairs).                          *)
(*                                                                         *)
(* Spec     a ChronoSet built by Map.convert, consolidated by              *)
(*          FindSuccessivePairs under start and end filters                *)
(* SpecKeys a ChronoSet of keyed events, serialized by Jsonify             *)
(* SpecMap  a loaded CSV or JSON file and its Map, converted to a          *)
(*          ChronoSet by getChronoSet (Map.convert)                        *)
(* SpecTimestamp  calls of Map.convertTimestamp                            *)
(* SpecCsv  events written as CSV rows by toCsv and toOldCsv, and event     *)
(*          lists written by Csvify                                        *)
(* SpecChrono  constructions of events                                     *)
(* SpecPairs  a ChronoSet consolidated once for each pair of the           *)
(*          post-processing list, all pairs holding the same filters       *)
(***************************************************************************)
EXTENDS Integers, Sequences, FiniteSets, TLC

\* ------------------------------------------------------------------ bounds
MaxEvents == 4        \* longest event list of the pairing specification
MaxCalls == 1         \* FindSuccessivePairs calls on one ChronoSet
MaxKeyRuns == 2       \* Jsonify runs on one ChronoSet
MaxJsonEvents == 13   \* longest event list of the key specification
MaxShortKeys == 3     \* longest list mixing absent and present keys
MaxRecords == 2       \* most elements of a file to convert
MaxConversions == 2   \* conversions of the loaded file
MaxTimestampCalls == 3   \* direct calls of Map.convertTimestamp
MaxCsvCalls == 1      \* calls of toCsv on one event
MaxConstructions == 2 \* events constructed one after the other
MaxCsvEvents == 2     \* longest event list written by Csvify
MaxPairEvents == 3    \* longest event list consolidated pair after pair
MaxPairs == 2         \* pairs of the post-processing list

\* ------------------------------------------------------ JavaScript values
JNull == [t |-> "null"]
JUndef == [t |-> "undefined"]
JNaN == [t |-> "NaN"]
JNum(n) == [t |-> "number", n |-> n]
JStr(s) == [t |-> "string", s |-> s]
JObj(f) == [t |-> "object", f |-> f]   \* a plain object, by property name
JArr(a) == [t |-> "array", a |-> a]    \* an array

\* truthiness, as tested by `x ? a : b`, `if (x)` and `!x`
Truthy(v) ==
    CASE v.t = "number" -> v.n # 0
      [] v.t = "string" -> v.s # <<>>
      [] v.t = "object" -> TRUE
      [] v.t = "array" -> TRUE
      [] OTHER -> FALSE

\* the === operator
StrictEq(a, b) == a.t # "NaN" /\ a = b

DigitChars == <<"0", "1", "2", "3", "4", "5", "6", "7", "8", "9">>

RECURSIVE ToDigits(_)
ToDigits(n) ==
    IF n < 10 THEN <<DigitChars[n + 1]>>
    ELSE ToDigits(n \div 10) \o <<DigitChars[(n % 10) + 1]>>

\* Number.prototype.toString for an integer
NumToString(n) == IF n < 0 THEN <<"-">> \o ToDigits(0 - n) ELSE ToDigits(n)

\* string conversion, as applied by + with a string operand and by `in`
ToStr(v) ==
    CASE v.t = "string" -> v.s
      [] v.t = "number" -> NumToString(v.n)
      [] v.t = "null" -> <<"n", "u", "l", "l">>
      [] v.t = "NaN" -> <<"N", "a", "N">>
      [] v.t = "object" ->
            <<"[", "o", "b", "j", "e", "c", "t", " ",
              "O", "b", "j", "e", "c", "t", "]">>
      [] OTHER -> <<"u", "n", "d", "e", "f", "i", "n", "e", "d">>

IsDigits(s) == \A i \in 1..Len(s) : \E d \in 1..10 : DigitChars[d] = s[i]

RECURSIVE DigitsValue(_)
DigitsValue(s) ==
    IF s = <<>> THEN 0
    ELSE 10 * DigitsValue(SubSeq(s, 1, Len(s) - 1))
         + ((CHOOSE d \in 1..10 : DigitChars[d] = s[Len(s)]) - 1)

\* numeric conversion, as applied by the - operator
ToNum(v) ==
    CASE v.t = "number" -> v
      [] v.t = "null" -> JNum(0)
      [] v.t = "string" -> IF IsDigits(v.s) THEN JNum(DigitsValue(v.s)) ELSE JNaN
      [] OTHER -> JNaN

\* the - operator
JsSub(a, b) ==
    LET x == ToNum(a)
        y == ToNum(b)
    IN IF x.t = "NaN" \/ y.t = "NaN" THEN JNaN ELSE JNum(x.n - y.n)

\* the + operator
JsAdd(a, b) ==
    IF a.t = "string" \/ b.t = "string" THEN JStr(ToStr(a) \o ToStr(b))
    ELSE LET x == ToNum(a)
             y == ToNum(b)
         IN IF x.t = "NaN" \/ y.t = "NaN" THEN JNaN ELSE JNum(x.n + y.n)

\* ------------------------------------------------------------- the Chrono
\* an entry of the diagnostics list `errors`
Diag(kind, fn) == [type |-> kind, function |-> fn]

\* NewChrono defaulting a null end only, a zero end being kept
NewChronoKeepZero(type, key, title, description, start, end, tags) ==
    LET e0 == IF end.t = "undefined" THEN JNull ELSE end
        e1 == IF e0 = JNull THEN start ELSE e0
    IN [type |-> type, key |-> key, title |-> title,
        description |-> description, start |-> start, end |-> e1,
        duration |-> JsSub(e1, start), tags |-> tags,
        myPrimaryTagKey |-> JUndef]

\* Chrono.constructor: the object it builds
NewChrono(type, key, title, description, start, end, tags) ==
    LET e0 == IF end.t = "undefined" THEN JNull ELSE end
        e1 == IF e0 = JNull \/ e0 = JNum(0) THEN start ELSE e0
    IN [type |-> type, key |-> key, title |-> title,
        description |-> description, start |-> start, end |-> e1,
        duration |-> JsSub(e1, start), tags |-> tags,
        myPrimaryTagKey |-> JUndef]

\* NewChronoDiags warning about a null start only
NewChronoDiagsNull(start) ==
    IF start = JNull THEN <<Diag("warn", "Chron.constructor")>> ELSE <<>>

\* Chrono.constructor: what it appends to the diagnostics list
NewChronoDiags(start) ==
    IF ~Truthy(start) THEN <<Diag("warn", "Chron.constructor")>> ELSE <<>>

\* ---------------------------------------------------------- array helpers
NoEvent == 0   \* `undefined` where an event is expected

\* Array.prototype.indexOf, zero based
IndexOf(s, x) ==
    IF \E i \in 1..Len(s) : s[i] = x
    THEN (CHOOSE i \in 1..Len(s) : s[i] = x /\ \A j \in 1..(i - 1) : s[j] # x) - 1
    ELSE -1

\* Array.prototype.splice(i, 1), zero based
Splice(s, i) ==
    LET k == IF i < 0 THEN (IF Len(s) + i < 0 THEN 0 ELSE Len(s) + i) ELSE i
    IN IF k >= Len(s) THEN s
       ELSE SubSeq(s, 1, k) \o SubSeq(s, k + 2, Len(s))

\* getIndecies(A, B): for each element of A its first position in B
GetIndecies(A, B) == [i \in 1..Len(A) |-> IndexOf(B, A[i])]

RECURSIVE InsertDesc(_, _)
InsertDesc(s, x) ==
    IF s = <<>> THEN <<x>>
    ELSE IF x >= s[1] THEN <<x>> \o s
    ELSE <<s[1]>> \o InsertDesc(Tail(s), x)

\* the indices left in the order they were collected
Unsorted(s) == s

\* indeciesToPop.sort((a, b) => b - a)
RECURSIVE SortDesc(_)
SortDesc(s) == IF s = <<>> THEN <<>> ELSE InsertDesc(SortDesc(Tail(s)), s[1])

\* for (let i of indeciesToPop) this.chronos.splice(i, 1)
RECURSIVE PopAll(_, _)
PopAll(C, idx) == IF idx = <<>> THEN C ELSE PopAll(Splice(C, idx[1]), Tail(idx))

\* ----------------------------------------------------------------- filters
\* A filter object has, for each field name, a value or no such key.
Absent == [t |-> "absent"]
FilterFields == {"type", "description"}
IS_SAME_AS == JNum(0)
FilterKeys(f) == {k \in FilterFields : f[k] # Absent}

\* startKey[key], undefined when the key is missing
FilterGet(f, k) == IF f[k] = Absent THEN JUndef ELSE f[k]

\* starts.filter(c => c[key] === startKey[key]) over every key of startKey
StartMatches(c, startKey) ==
    \A k \in FilterKeys(startKey) : StrictEq(c[k], startKey[k])

\* ends.filter(c => c[key] === value) over every key of endKey
EndMatches(c, startKey, endKey) ==
    \A k \in FilterKeys(endKey) :
        StrictEq(c[k], IF endKey[k] = IS_SAME_AS THEN FilterGet(startKey, k)
                       ELSE endKey[k])

\* ------------------------------------------------- FindSuccessivePairs
\* the inner for loop: the end chosen for one start, and the ends array after
RECURSIVE Scan(_, _, _, _, _)
Scan(C, E, index, i, end) ==
    IF i >= Len(E) THEN [end |-> end, E |-> E]
    ELSE IF i = 0 \/ IndexOf(C, end) <= index
         THEN Scan(C, E, index, i + 1, E[i + 1])
         ELSE [end |-> end, E |-> Splice(E, i - 1)]

\* Prefer with the end event's value taken first
PreferEnd(x, y) == IF Truthy(y) THEN y ELSE x

\* `x ? x : y`
Prefer(x, y) == IF Truthy(x) THEN x ELSE y

\* Merged with the pair's end taken from the end event's end (a slip for
\* end.start)
MergedEndFromEnd(sr, er) ==
    [type |-> Prefer(sr.type, er.type),
     key |-> Prefer(sr.key, er.key),
     title |-> Prefer(sr.title, er.title),
     description |-> Prefer(sr.description, er.description),
     start |-> sr.start,
     end |-> er.end,
     duration |-> JsSub(er.end, sr.start),
     tags |-> JsAdd(sr.tags, er.tags),
     myPrimaryTagKey |-> Prefer(sr.myPrimaryTagKey, er.myPrimaryTagKey)]

\* Merged without the recomputation of duration
MergedStaleDuration(sr, er) ==
    [type |-> Prefer(sr.type, er.type),
     key |-> Prefer(sr.key, er.key),
     title |-> Prefer(sr.title, er.title),
     description |-> Prefer(sr.description, er.description),
     start |-> sr.start,
     end |-> er.start,
     duration |-> sr.duration,
     tags |-> JsAdd(sr.tags, er.tags),
     myPrimaryTagKey |-> Prefer(sr.myPrimaryTagKey, er.myPrimaryTagKey)]

\* "Set Properties": the start event after the eight assignments, from the
\* start event sr and the end event er as they were before them.  Every
\* assignment reads the end event's field before any assignment to the same
\* field of the start event, and start.start is never assigned, so the result
\* is the same when start and end are one object.
Merged(sr, er) ==
    [type |-> Prefer(sr.type, er.type),
     key |-> Prefer(sr.key, er.key),
     title |-> Prefer(sr.title, er.title),
     description |-> Prefer(sr.description, er.description),
     start |-> sr.start,
     end |-> er.start,
     duration |-> JsSub(er.start, sr.start),
     tags |-> JsAdd(sr.tags, er.tags),
     myPrimaryTagKey |-> Prefer(sr.myPrimaryTagKey, er.myPrimaryTagKey)]

\* Merge writing the merged fields into the end event
MergeIntoEnd(h, s, e) == [h EXCEPT ![e] = Merged(h[s], h[e])]

\* the heap after start event s has been merged with end event e
Merge(h, s, e) == [h EXCEPT ![s] = Merged(h[s], h[e])]

\* The outer loop `for (let start of pairs)`, from array position p.
\* st.C is the array this.chronos, st.S the array starts (= pairs), st.E the
\* array ends; with an empty startKey (sAlias) starts IS this.chronos, with
\* an empty endKey (eAlias) ends IS this.chronos.  st.tr lists the
\* <<start, end>> merges in the order made.  Reading a property of an
\* undefined end throws a TypeError before any field has changed.
RECURSIVE PairLoop(_, _, _, _)
PairLoop(st, p, sAlias, eAlias) ==
    LET pairs == IF sAlias THEN st.C ELSE st.S
        ends == IF eAlias THEN st.C ELSE st.E
    IN IF p >= Len(pairs) \/ st.threw THEN st
       ELSE LET start == pairs[p + 1]
                index == IndexOf(st.C, start)
                r == Scan(st.C, ends, index, 0, NoEvent)
            IN IF r.end = NoEvent THEN [st EXCEPT !.threw = TRUE]
               ELSE PairLoop([h |-> Merge(st.h, start, r.end),
                              C |-> IF eAlias THEN r.E ELSE st.C,
                              S |-> st.S,
                              E |-> IF eAlias THEN st.E ELSE r.E,
                              tr |-> Append(st.tr, <<start, r.end>>),
                              threw |-> FALSE],
                             p + 1, sAlias, eAlias)

\* The whole of FindSuccessivePairs on heap h and array C = this.chronos:
\*   threw   a TypeError left the method (nothing was changed)
\*   h       the heap afterwards
\*   old     the array that was this.chronos, after the splices
\*   chronos the new array assigned to this.chronos
\*   ret     the returned array pairs
\*   tr      the merges made, as <<start, end>> in order
FindSuccessivePairsOf(h, C, startKey, endKey) ==
    LET sAlias == FilterKeys(startKey) = {}
        eAlias == FilterKeys(endKey) = {}
        SM(id) == StartMatches(h[id], startKey)
        EM(id) == EndMatches(h[id], startKey, endKey)
        starts == SelectSeq(C, SM)
        ends == SelectSeq(C, EM)
        toPop == GetIndecies(starts, C) \o GetIndecies(ends, C)
        st == PairLoop([h |-> h, C |-> C, S |-> starts, E |-> ends,
                        tr |-> <<>>, threw |-> FALSE], 0, sAlias, eAlias)
        C1 == PopAll(st.C, SortDesc(toPop))
        pairs == IF sAlias THEN C1 ELSE st.S
    IN IF st.threw
       THEN [threw |-> TRUE, h |-> h, old |-> C, chronos |-> C,
             ret |-> <<>>, tr |-> <<>>, starts |-> starts, ends |-> ends]
       ELSE [threw |-> FALSE, h |-> st.h, old |-> C1, chronos |-> C1 \o pairs,
             ret |-> pairs, tr |-> st.tr, starts |-> starts, ends |-> ends]

\* ------------------------------------------------------------------ Jsonify
UuidPool == {<<"u", "1">>, <<"u", "2">>}   \* values getUuid() may return

\* the time value of new Date(v) for the values start and end can hold
DateValue(v) ==
    CASE v.t = "number" -> v
      [] v.t = "null" -> JNum(0)
      [] OTHER -> JNaN

\* the start / end object of toJson (minute, which depends on the host's
\* time zone, is left out)
JsonTime(v) ==
    LET d == DateValue(v)
    IN IF d.t = "NaN" THEN [second |-> JNaN, totalSec |-> JNaN]
       ELSE [second |-> JNum((d.n \div 1000) % 60), totalSec |-> JNum(d.n * 1000)]

\* Chrono.toJson
ToJson(c) ==
    [type |-> c.type, key |-> c.key, title |-> c.title,
     description |-> c.description, start |-> JsonTime(c.start),
     end |-> JsonTime(c.end), duration |-> c.duration,
     myPrimaryTagKey |-> JNull]

\* KeyCount with the first occurrence counted as 1
KeyCountFromOne(keys, name) ==
    IF name \in DOMAIN keys THEN [keys EXCEPT ![name] = @ + 1]
    ELSE [x \in DOMAIN keys \cup {name} |-> IF x = name THEN 1 ELSE keys[x]]

\* the counter map after `keys[k] += 1` or `keys[k] = 0`
KeyCount(keys, name) ==
    IF name \in DOMAIN keys THEN [keys EXCEPT ![name] = @ + 1]
    ELSE [x \in DOMAIN keys \cup {name} |-> IF x = name THEN 0 ELSE keys[x]]

\* PrefixedKey leaving the first occurrence of a key without its prefix
PrefixedKeyFromSecond(n, k) ==
    IF n = 0 THEN JStr(ToStr(k)) ELSE JStr(NumToString(n) \o ToStr(k))

\* PrefixedKey leaving alone a key that already begins with a counter digit
PrefixedKeyOnce(n, k) ==
    IF ToStr(k) # <<>> /\ IsDigits(<<ToStr(k)[1]>>) THEN JStr(ToStr(k))
    ELSE JStr(NumToString(n) \o ToStr(k))

\* keys[k].toString() + k
PrefixedKey(n, k) == JStr(NumToString(n) \o ToStr(k))

\* json[key] = value
PutJson(json, name, value) ==
    [x \in DOMAIN json \cup {name} |-> IF x = name THEN value ELSE json[x]]

\* The loop of Jsonify from position i; keys maps a property name to its
\* counter, uuid gives the getUuid() result for each position that needs one.
\* (Property names inherited from Object.prototype are outside the model's
\* key alphabet.)
RECURSIVE JsonifyLoop(_, _, _, _, _, _)
JsonifyLoop(h, C, i, keys, json, uuid) ==
    IF i >= Len(C) THEN [h |-> h, json |-> json]
    ELSE LET c == C[i + 1]
             k == h[c].key
             keys1 == IF Truthy(k) THEN KeyCount(keys, ToStr(k)) ELSE keys
             key == IF Truthy(k) THEN PrefixedKey(keys1[ToStr(k)], k)
                    ELSE JStr(uuid[i + 1])
             h1 == [h EXCEPT ![c].key = key]
         IN JsonifyLoop(h1, C, i + 1, keys1,
                        PutJson(json, ToStr(key), ToJson(h1[c])), uuid)

\* -------------------------------------------------------------- Map.convert
\* the * operator with a number on the right
JsMul(a, n) ==
    LET x == ToNum(a)
    IN IF x.t = "NaN" THEN JNaN ELSE JNum(x.n * n)

\* the longest prefix of s made of decimal digits
RECURSIVE DigitPrefix(_)
DigitPrefix(s) ==
    IF s = <<>> \/ ~IsDigits(<<s[1]>>) THEN <<>>
    ELSE <<s[1]>> \o DigitPrefix(Tail(s))

\* parseInt(s): an optional minus sign and the leading digits, NaN without any
\* (leading white space is outside the model's characters)
ParseInt(s) ==
    LET neg == s # <<>> /\ s[1] = "-"
        p == DigitPrefix(IF neg THEN Tail(s) ELSE s)
    IN IF p = <<>> THEN JNaN
       ELSE JNum(IF neg THEN 0 - DigitsValue(p) ELSE DigitsValue(p))

\* ConvertTimestamp taking "pythonic" values as milliseconds already
ConvertTimestampUnscaled(timestamp, format) ==
    IF timestamp = JNull
    THEN [value |-> JNull, diags |-> <<Diag("error", "convertTimestamp")>>]
    ELSE LET n == IF timestamp.t = "string" THEN ParseInt(timestamp.s)
                  ELSE timestamp
         IN [value |-> n, diags |-> <<>>]

\* ConvertTimestamp answering a null timestamp with 0 and no diagnostic
ConvertTimestampSilent(timestamp, format) ==
    IF timestamp = JNull
    THEN [value |-> JNum(0), diags |-> <<>>]
    ELSE LET n == IF timestamp.t = "string" THEN ParseInt(timestamp.s)
                  ELSE timestamp
         IN [value |-> IF format = "pythonic" THEN JsMul(n, 1000) ELSE n,
             diags |-> <<>>]

\* Map.convertTimestamp: the value returned and the entries appended to the
\* diagnostics list.  Format "C" subtracts the host's local time value of
\* 1 January of year 1 from a count of ticks; these values lie outside the
\* integers of the model, so the formats drawn are "pythonic" and formats the
\* code does not recognise, which leave the number as it is.
ConvertTimestamp(timestamp, format) ==
    IF timestamp = JNull
    THEN [value |-> JNull, diags |-> <<Diag("error", "convertTimestamp")>>]
    ELSE LET n == IF timestamp.t = "string" THEN ParseInt(timestamp.s)
                  ELSE timestamp
         IN [value |-> IF format = "pythonic" THEN JsMul(n, 1000) ELSE n,
             diags |-> <<>>]

\* String.prototype.split with a separator of one character
RECURSIVE Split(_, _)
Split(s, sep) ==
    IF \E i \in 1..Len(s) : s[i] = sep
    THEN LET i == CHOOSE i \in 1..Len(s) :
                      s[i] = sep /\ \A j \in 1..(i - 1) : s[j] # sep
         IN <<SubSeq(s, 1, i - 1)>> \o Split(SubSeq(s, i + 1, Len(s)), sep)
    ELSE <<s>>

\* typeof(v) === "object"
TypeofObject(v) == v.t \in {"object", "array", "null"}

\* v[k] for a v that is neither null nor undefined (property names inherited
\* from the prototypes, such as length, are outside the model's names)
GetProp(v, k) ==
    LET name == ToStr(k)
    IN CASE v.t = "array" ->
              IF \E i \in 1..Len(v.a) : NumToString(i - 1) = name
              THEN v.a[CHOOSE i \in 1..Len(v.a) : NumToString(i - 1) = name]
              ELSE JUndef
         [] v.t = "object" ->
              IF name \in DOMAIN v.f THEN v.f[name] ELSE JUndef
         [] v.t = "string" ->
              IF \E i \in 1..Len(v.s) : NumToString(i - 1) = name
              THEN JStr(<<v.s[CHOOSE i \in 1..Len(v.s) : NumToString(i - 1) = name]>>)
              ELSE JUndef
         [] OTHER -> JUndef

\* the loop of getNestedValue from key i: reading a property of null or of
\* undefined throws a TypeError
RECURSIVE WalkKeys(_, _, _)
WalkKeys(ret, keys, i) ==
    IF i > Len(keys) THEN [threw |-> FALSE, value |-> ret]
    ELSE IF ret.t \in {"null", "undefined"} THEN [threw |-> TRUE, value |-> JUndef]
    ELSE WalkKeys(GetProp(ret, keys[i]), keys, i + 1)

\* Map.getNestedValue(data, keys), keys a string, an array of keys or null
GetNestedValue(data, keys) ==
    IF keys.t = "string" THEN [threw |-> FALSE, value |-> keys]
    ELSE IF keys.t = "null" THEN [threw |-> TRUE, value |-> JUndef]
    ELSE LET w == WalkKeys(data, keys.a, 1)
         IN IF w.threw THEN w
            ELSE [threw |-> FALSE,
                  value |-> IF Truthy(w.value) THEN JStr(ToStr(w.value))
                            ELSE JNull]

\* `for (let accessor of this[property])` from accessor i: the first truthy
\* value, null after the last accessor
RECURSIVE TryAccessors(_, _, _)
TryAccessors(accs, datum, i) ==
    IF i > Len(accs) THEN [threw |-> FALSE, value |-> JNull]
    ELSE LET r == IF TypeofObject(accs[i]) THEN GetNestedValue(datum, accs[i])
                  ELSE [threw |-> FALSE, value |-> GetProp(datum, accs[i])]
         IN IF r.threw \/ Truthy(r.value) THEN r
            ELSE TryAccessors(accs, datum, i + 1)

\* ResolveProperty trying the first accessor of the list only
ResolvePropertyFirstOnly(field, datum) ==
    IF field.t = "string" THEN [threw |-> FALSE, value |-> field]
    ELSE IF field.t = "null" THEN [threw |-> TRUE, value |-> JUndef]
    ELSE IF field.t = "array"
         THEN TryAccessors(IF field.a = <<>> THEN <<>> ELSE <<field.a[1]>>,
                           datum, 1)
    ELSE [threw |-> FALSE, value |-> JNull]

\* One pass of propertyLoop: the value given to properties[property] for the
\* mapping field `field`, or a TypeError (null is not iterable)
ResolveProperty(field, datum) ==
    IF field.t = "string" THEN [threw |-> FALSE, value |-> field]
    ELSE IF field.t = "null" THEN [threw |-> TRUE, value |-> JUndef]
    ELSE IF field.t = "array" THEN TryAccessors(field.a, datum, 1)
    ELSE [threw |-> FALSE, value |-> JNull]

PropertyNames ==
    {"type", "key", "title", "description", "start", "end", "tags"}

\* the array of the cells of a CSV line
Cells(cells) == JArr([i \in 1..Len(cells) |-> JStr(cells[i])])

\* `new Chrono(...)` of Map.convert from the properties p, the converted
\* start cs and the converted end ce: the event and the diagnostics appended,
\* those of the two convertTimestamp calls before that of the constructor
CreateObject(p, cs, ce, offset) ==
    [threw |-> FALSE,
     chrono |-> NewChrono(p.type.value, p.key.value, p.title.value,
                          p.description.value, JsSub(cs.value, offset),
                          JsSub(ce.value, offset), p.tags.value),
     diags |-> cs.diags \o ce.diags
               \o NewChronoDiags(JsSub(cs.value, offset))]

\* the body of the loop of Map.convert once propertyLoop has given p
ConvertProperties(p, format, offset) ==
    IF \E k \in PropertyNames : p[k].threw
    THEN [threw |-> TRUE, diags |-> <<>>]
    ELSE CreateObject(p, ConvertTimestamp(p.start.value, format),
                      ConvertTimestamp(p.end.value, format), offset)

\* the body of the loop of Map.convert for the datum, split if it was a line
ConvertDatum(m, datum, offset) ==
    ConvertProperties([k \in PropertyNames |-> ResolveProperty(m[k], datum)],
                      m.timestampFormat, offset)

\* the body of the loop of Map.convert for one element of data
ConvertOne(m, datum0, offset) ==
    ConvertDatum(m, IF datum0.t = "string" THEN Cells(Split(datum0.s, m.sep))
                    ELSE datum0, offset)

\* The loop of Map.convert from element i (zero based) with the events and
\* the diagnostics produced so far; a TypeError leaves the method with the
\* diagnostics already appended and no result.
RECURSIVE ConvertLoop(_, _, _, _, _, _)
ConvertRest(m, d, i, offset, out, diags, r) ==
    IF r.threw THEN [threw |-> TRUE, chronos |-> <<>>, diags |-> diags]
    ELSE ConvertLoop(m, d, i + 1, offset, Append(out, r.chrono),
                     diags \o r.diags)

ConvertLoop(m, d, i, offset, out, diags) ==
    IF i >= Len(d) THEN [threw |-> FALSE, chronos |-> out, diags |-> diags]
    ELSE ConvertRest(m, d, i, offset, out, diags, ConvertOne(m, d[i + 1], offset))

\* Map.convert going through every element whatever firstRow is
ConvertOfFromZero(m, d, offset) == ConvertLoop(m, d, 0, offset, <<>>, <<>>)

\* Map.convert(data)
ConvertOf(m, d, offset) ==
    ConvertLoop(m, d, IF m.firstRow THEN 1 ELSE 0, offset, <<>>, <<>>)

\* ------------------------------------------------------------ Chrono.toCsv
\* the decimal digits of n, with zeros in front up to width w
RECURSIVE Pad(_, _)
Pad(n, w) == IF Len(ToDigits(n)) >= w THEN ToDigits(n)
             ELSE <<"0">> \o SubSeq(Pad(n, w - 1), 1, w - 1)

\* new Date(ms).toISOString().split(/[TZ]/)[1]: the UTC time of day
TimeOfDay(ms) ==
    LET t == ms % 86400000
    IN Pad(t \div 3600000, 2) \o <<":">> \o Pad((t \div 60000) % 60, 2)
       \o <<":">> \o Pad((t \div 1000) % 60, 2) \o <<".">> \o Pad(t % 1000, 3)

RECURSIVE TrimZeros(_)
TrimZeros(s) ==
    IF s # <<>> /\ s[Len(s)] = "0" THEN TrimZeros(SubSeq(s, 1, Len(s) - 1))
    ELSE s

\* the string of the number ms / 1000
SecondsString(ms) ==
    LET a == IF ms < 0 THEN 0 - ms ELSE ms
        frac == TrimZeros(Pad(a % 1000, 3))
    IN (IF ms < 0 THEN <<"-">> ELSE <<>>) \o ToDigits(a \div 1000)
       \o (IF frac = <<>> THEN <<>> ELSE <<".">> \o frac)

\* s.replace(sep, alt) with a string pattern of one character: the first
\* occurrence is replaced
ReplaceFirst(s, sep, alt) ==
    [i \in 1..Len(s) |->
        IF s[i] = sep /\ \A j \in 1..(i - 1) : s[j] # sep THEN alt ELSE s[i]]

\* `text ? text.replace(sep, (sep === "," ? ";" : ",")) : ""`
Escaped(text, sep) ==
    IF Truthy(text) THEN ReplaceFirst(text.s, sep, IF sep = "," THEN ";" ELSE ",")
    ELSE <<>>

\* Array.prototype.join with a separator of one character
RECURSIVE Join(_, _)
Join(fields, sep) ==
    IF fields = <<>> THEN <<>>
    ELSE IF Len(fields) = 1 THEN fields[1]
    ELSE fields[1] \o <<sep>> \o Join(Tail(fields), sep)

\* the array csv of toCsv, every element as the string join makes of it
CsvFields(c, sep) ==
    <<Escaped(c.title, sep),
      Escaped(c.description, sep),
      IF Truthy(c.start) THEN TimeOfDay(c.start.n) ELSE <<>>,
      IF Truthy(c.start) THEN SecondsString(c.start.n) ELSE <<>>,
      IF Truthy(c.end) THEN TimeOfDay(c.end.n) ELSE <<>>,
      IF Truthy(c.end) THEN SecondsString(c.end.n) ELSE <<>>,
      ToStr(c.duration),
      <<>>,
      Escaped(c.tags, sep)>>

\* ToCsv reporting nothing when a time is missing
ToCsvQuiet(c, sep) == [row |-> Join(CsvFields(c, sep), sep), diags |-> <<>>]

\* Chrono.toCsv(sep): the row returned and the entries appended to the
\* diagnostics list
ToCsv(c, sep) ==
    [row |-> Join(CsvFields(c, sep), sep),
     diags |-> IF ~Truthy(c.start) \/ ~Truthy(c.end)
               THEN <<Diag("error", "toCsv")>> ELSE <<>>]

\* the array csv of toOldCsv
OldCsvFields(c, sep) ==
    <<IF Truthy(c.start) THEN TimeOfDay(c.start.n) ELSE <<>>,
      IF Truthy(c.end) THEN TimeOfDay(c.end.n) ELSE <<>>,
      Escaped(c.title, sep),
      Escaped(c.tags, sep),
      Escaped(c.description, sep),
      Escaped(c.title, sep),
      Escaped(c.type, sep)>>

\* Chrono.toOldCsv(sep)
ToOldCsv(c, sep) ==
    [row |-> Join(OldCsvFields(c, sep), sep),
     diags |-> IF ~Truthy(c.start) \/ ~Truthy(c.end)
               THEN <<Diag("error", "toOldCsv")>> ELSE <<>>]

\* the header lines of Csvify
CsvHeader ==
    <<"T", "i", "t", "l", "e", ",", "D", "e", "s", "c", "r", "i", "p", "t",
      "i", "o", "n", ",", "S", "t", "a", "r", "t", "(", "H", "M", "S", ")",
      ",", "S", "t", "a", "r", "t", "(", "s", "e", "c", ")", ",", "E", "n",
      "d", "(", "H", "M", "S", ")", ",", "E", "n", "d", "(", "s", "e", "c",
      ")", ",", "D", "u", "r", "a", "t", "i", "o", "n", "(", "s", "e", "c",
      ")", ",", "P", "r", "i", "m", "a", "r", "y", "T", "a", "g", ",", "T",
      "a", "g", "s">>

OldCsvHeader ==
    <<"S", "t", "a", "r", "t", "T", "i", "m", "e", ",", "E", "n", "d", "T",
      "i", "m", "e", ",", "T", "i", "t", "l", "e", ",", "A", "n", "n", "o",
      "t", "a", "t", "i", "o", "n", ",", "M", "a", "i", "n", "C", "a", "t",
      "e", "g", "o", "r", "y", ",", "C", "a", "t", "e", "g", "o", "r", "y",
      "2", ",", "C", "a", "t", "e", "g", "o", "r", "y", "3">>

\* csv.join("\r\n")
RECURSIVE JoinLines(_)
JoinLines(lines) ==
    IF lines = <<>> THEN <<>>
    ELSE IF Len(lines) = 1 THEN lines[1]
    ELSE lines[1] \o <<"\r", "\n">> \o JoinLines(Tail(lines))

\* The loop of Csvify from position i: the array csv and the diagnostics
\* appended, r being the row and the diagnostics of the event at position i
RECURSIVE CsvifyLoop(_, _, _, _, _, _)
CsvifyRest(h, C, i, old, csv, diags, r) ==
    CsvifyLoop(h, C, i + 1, old, Append(csv, r.row), diags \o r.diags)

CsvifyLoop(h, C, i, old, csv, diags) ==
    IF i >= Len(C) THEN [csv |-> csv, diags |-> diags]
    ELSE CsvifyRest(h, C, i, old, csv, diags,
                    IF old THEN ToOldCsv(h[C[i + 1]], ",")
                    ELSE ToCsv(h[C[i + 1]], ","))

\* ChronoSet.Csvify(useOldFormat)
CsvifyOf(h, C, old) ==
    CsvifyLoop(h, C, 0, old, <<IF old THEN OldCsvHeader ELSE CsvHeader>>, <<>>)

\* ------------------------------------------------------------------- state
VARIABLES
    heap,            \* the Chrono objects, by identity
    chronos,         \* ChronoSet.chronos: the working set
    chronos_backup,  \* ChronoSet.chronos_backup
    aliased,         \* chronos and chronos_backup are the same array object
    errors,          \* the global diagnostics list
    calls,           \* operations applied so far
    last,            \* record of the last operation (history)
    map,             \* the Map of the loaded file (maps[0])
    data,            \* the elements of the loaded file (data[0])
    offsetField,     \* the time offset input and its format select
    timeOffset       \* the global time offset

vars ==
    <<heap, chronos, chronos_backup, aliased, errors, calls, last, map, data,
      offsetField, timeOffset>>

EmptyFilter == [type |-> Absent, description |-> Absent]
EmptyMap == [x \in {} |-> 0]

NoOp ==
    [op |-> "none", prevOp |-> "none", threw |-> FALSE,
     startKey |-> EmptyFilter, endKey |-> EmptyFilter,
     heap0 |-> <<>>, prevHeap0 |-> <<>>, chronos0 |-> <<>>,
     ret |-> <<>>, tr |-> <<>>, starts |-> <<>>, ends |-> <<>>,
     json |-> EmptyMap, errors0 |-> <<>>, prevThrew |-> FALSE,
     timestamp |-> JUndef, format |-> "", value |-> JUndef, sep |-> "",
     start |-> JUndef, end |-> JUndef, csv |-> <<>>]

\* ------------------------------------------------- inputs of the pairing
S == JStr(<<"s">>)
E == JStr(<<"e">>)
A == JStr(<<"A">>)

\* the record shapes of the pairing inputs: a type and a profile
Shapes ==
    {<<S, "bare">>, <<E, "bare">>, <<E, "full">>, <<JNull, "bare">>,
     <<JNull, "full">>}

\* the event Map.convert would build at position i for one record shape:
\* a full record has every text field and an end time, a bare one has none
ShapedChrono(i, type, profile) ==
    IF profile = "full"
    THEN NewChrono(type, JStr(<<"k">>), JStr(<<"t">>), A,
                   JNum(10 * (i - 1)), JNum(10 * (i - 1) + 5), JStr(<<"x">>))
    ELSE NewChrono(type, JNull, JNull, JNull, JNum(10 * (i - 1)), JNull, JNull)

RECURSIVE DiagsOf(_, _)
DiagsOf(h, i) ==
    IF i > Len(h) THEN <<>> ELSE NewChronoDiags(h[i].start) \o DiagsOf(h, i + 1)

\* new ChronoSet(chronos): both fields name the array it is given
ChronoSetOf(h) ==
    /\ heap = h
    /\ chronos = [i \in 1..Len(h) |-> i]
    /\ chronos_backup = [i \in 1..Len(h) |-> i]
    /\ aliased = TRUE
    /\ errors = DiagsOf(h, 1)
    /\ calls = 0
    /\ last = NoOp

\* no file is loaded and no conversion has run
NoFile ==
    /\ map = JNull
    /\ data = <<>>
    /\ offsetField = [value |-> <<>>, format |-> "C"]
    /\ timeOffset = JUndef

Init ==
    /\ NoFile
    /\ \E n \in 0..MaxEvents :
          \E sh \in [1..n -> Shapes] :
              ChronoSetOf([i \in 1..n |-> ShapedChrono(i, sh[i][1], sh[i][2])])

StartKeys ==
    {EmptyFilter,
     [type |-> S, description |-> Absent],
     [type |-> Absent, description |-> A]}

EndKeys ==
    {EmptyFilter,
     [type |-> E, description |-> Absent],
     [type |-> E, description |-> IS_SAME_AS]}

\* ----------------------------------------------------------------- actions
\* what a call of FindSuccessivePairs with result r does to the ChronoSet
Paired(startKey, endKey, r) ==
    /\ heap' = r.h
    /\ chronos' = r.chronos
    /\ chronos_backup' = IF aliased THEN r.old ELSE chronos_backup
    /\ aliased' = (aliased /\ r.threw)
    /\ last' = [NoOp EXCEPT !.op = "FindSuccessivePairs",
                            !.prevOp = last.op,
                            !.threw = r.threw, !.prevThrew = last.threw,
                            !.startKey = startKey, !.endKey = endKey,
                            !.heap0 = heap, !.prevHeap0 = last.heap0,
                            !.chronos0 = chronos,
                            !.ret = r.ret, !.tr = r.tr,
                            !.starts = r.starts, !.ends = r.ends]
    /\ calls' = calls + 1
    /\ UNCHANGED <<errors, map, data, offsetField, timeOffset>>

FindSuccessivePairs(startKey, endKey) ==
    /\ calls < MaxCalls
    /\ Paired(startKey, endKey,
              FindSuccessivePairsOf(heap, chronos, startKey, endKey))

FalsyKeyed == {i \in 1..Len(chronos) : ~Truthy(heap[chronos[i]].key)}

Jsonify ==
    /\ calls < MaxKeyRuns
    /\ \E uuid \in [FalsyKeyed -> UuidPool] :
          LET r == JsonifyLoop(heap, chronos, 0, EmptyMap, EmptyMap, uuid)
          IN /\ heap' = r.h
             /\ last' = [NoOp EXCEPT !.op = "Jsonify", !.prevOp = last.op,
                                     !.heap0 = heap, !.prevHeap0 = last.heap0,
                                     !.chronos0 = chronos, !.json = r.json]
    /\ calls' = calls + 1
    /\ UNCHANGED <<chronos, chronos_backup, aliased, errors, map, data,
                   offsetField, timeOffset>>

Next == \E sk \in StartKeys : \E ek \in EndKeys : FindSuccessivePairs(sk, ek)

Spec == Init /\ [][Next]_vars

\* ------------------------------------------- one consolidation per pair
\* PostProcessing_Process reads the filters of every pair from the first
\* start table and the first end table of the document, so all the pairs of
\* its list hold the same filters; it calls FindSuccessivePairs once per
\* pair on one ChronoSet, and a TypeError ends it.
InitPairs ==
    /\ NoFile
    /\ \E n \in 0..MaxPairEvents :
          \E sh \in [1..n -> Shapes] :
              ChronoSetOf([i \in 1..n |-> ShapedChrono(i, sh[i][1], sh[i][2])])

\* the call for the first pair of the list
ProcessFirstPair(startKey, endKey) ==
    /\ calls = 0
    /\ Paired(startKey, endKey,
              FindSuccessivePairsOf(heap, chronos, startKey, endKey))

\* the call for a further pair: the same filters on the same ChronoSet
ProcessNextPair ==
    /\ calls >= 1
    /\ calls < MaxPairs
    /\ ~last.threw
    /\ Paired(last.startKey, last.endKey,
              FindSuccessivePairsOf(heap, chronos, last.startKey,
                                    last.endKey))

NextPairs ==
    \/ \E sk \in StartKeys : \E ek \in EndKeys : ProcessFirstPair(sk, ek)
    \/ ProcessNextPair

SpecPairs == InitPairs /\ [][NextPairs]_vars

\* ------------------------------------------- the key specification
Z == JStr(<<"0", "A">>)
ShortKeys == {JNull, JStr(<<>>), A, Z}

KeyedChrono(i, key) ==
    NewChrono(JNull, key, JNull, JNull, JNum(1000 * i), JNull, JNull)

\* m events with key k1 followed by n events with key k2
BlockKeys(m, k1, n, k2) == [i \in 1..(m + n) |-> IF i <= m THEN k1 ELSE k2]

\* Either a long list made of a run of "A" and a run of "0A", in either
\* order, or a short list of arbitrary keys, absent and empty ones included.
InitKeys ==
    /\ NoFile
    /\ \/ \E m \in 0..MaxJsonEvents : \E n \in 0..(MaxJsonEvents - m) :
             \E k \in {<<A, Z>>, <<Z, A>>} :
                 ChronoSetOf([i \in 1..(m + n) |->
                                 KeyedChrono(i, BlockKeys(m, k[1], n, k[2])[i])])
       \/ \E n \in 1..MaxShortKeys :
             \E ks \in [1..n -> ShortKeys] :
                 ChronoSetOf([i \in 1..n |-> KeyedChrono(i, ks[i])])

NextKeys == Jsonify

SpecKeys == InitKeys /\ [][NextKeys]_vars

\* ------------------------------------------- the conversion specification
Formats == {"pythonic", "unix"}

\* an object literal, from its <<name, value>> pairs
Props(ps) ==
    [k \in {ps[i][1] : i \in DOMAIN ps} |->
        ps[CHOOSE i \in DOMAIN ps : ps[i][1] = k][2]]

V == JStr(<<"v">>)
W == JStr(<<"w">>)
Ka == JStr(<<"a">>)
Kb == JStr(<<"b">>)
Kc == JStr(<<"c">>)
Kt == JStr(<<"t">>)

\* lines of a CSV file: "1000,v"  "7,"  ",w"  "0,v,w"
CsvRows ==
    {JStr(<<"1", "0", "0", "0", ",", "v">>), JStr(<<"7", ",">>),
     JStr(<<",", "w">>), JStr(<<"0", ",", "v", ",", "w">>)}

\* elements of a JSON file:
\*   {a: {b: "v"}, t: 5}   {a: {}, c: "w", t: "1000"}
\*   {c: "w", t: "7"}      {a: "s", t: 0}
JsonRecords ==
    {JObj(Props(<<<<Ka.s, JObj(Props(<<<<Kb.s, V>>>>))>>, <<Kt.s, JNum(5)>>>>)),
     JObj(Props(<<<<Ka.s, JObj(Props(<<>>))>>, <<Kc.s, W>>,
                  <<Kt.s, JStr(<<"1", "0", "0", "0">>)>>>>)),
     JObj(Props(<<<<Kc.s, W>>, <<Kt.s, JStr(<<"7">>)>>>>)),
     JObj(Props(<<<<Ka.s, JStr(<<"s">>)>>, <<Kt.s, JNum(0)>>>>))}

\* the Map getMapFromDOM builds for a CSV table: every field starts as an
\* empty accessor list and gets the indices of the columns mapped to it
CsvBase ==
    [type |-> JArr(<<JNum(1)>>), key |-> JArr(<<>>), title |-> JArr(<<>>),
     description |-> JArr(<<>>), start |-> JArr(<<JNum(0)>>),
     end |-> JArr(<<>>), tags |-> JArr(<<>>), firstRow |-> FALSE,
     timestampFormat |-> "pythonic", sep |-> ","]

\* the Map getMapFromDOM builds for a JSON table: accessors are key paths
JsonBase ==
    [type |-> JArr(<<JArr(<<Ka, Kb>>)>>), key |-> JArr(<<>>),
     title |-> JArr(<<>>), description |-> JArr(<<>>),
     start |-> JArr(<<JArr(<<Kt>>)>>), end |-> JArr(<<>>),
     tags |-> JArr(<<>>), firstRow |-> FALSE, timestampFormat |-> "unix",
     sep |-> ","]

\* Values of a field of a Map: a static string, accessor lists, and what
\* Map.import passes on from a map file (null, a missing entry, a number).
CsvTypeFields ==
    {JStr(<<"T">>), JArr(<<>>), JArr(<<JNum(1)>>), JArr(<<JNum(1), JNum(2)>>),
     JArr(<<JNum(2), JNum(1)>>), JNull, JUndef}
CsvStartFields == {JArr(<<JNum(0)>>), JArr(<<>>), JNum(0), JNull}
CsvEndFields == {JArr(<<>>), JArr(<<JNum(0)>>), JNull, JUndef}
JsonTypeFields ==
    {JArr(<<JArr(<<Ka, Kb>>)>>), JArr(<<JArr(<<Ka, Kb>>), JArr(<<Kc>>)>>),
     JArr(<<JArr(<<Kc>>), JArr(<<Ka, Kb>>)>>), JArr(<<Kc>>), JNull}
JsonStartFields == {JArr(<<JArr(<<Kt>>)>>), JArr(<<Kt>>)}
JsonEndFields == {JArr(<<>>), JUndef}

\* the maps that differ from base in one of type, start, end
MapsFrom(base, types, starts, ends) ==
    {[base EXCEPT !.type = x] : x \in types}
        \cup {[base EXCEPT !.start = x] : x \in starts}
        \cup {[base EXCEPT !.end = x] : x \in ends}

\* the time offset input (a string) and the format selected for it
OffsetFields ==
    {[value |-> <<>>, format |-> "unix"],
     [value |-> <<"0">>, format |-> "unix"],
     [value |-> <<"2", "5", "0">>, format |-> "unix"],
     [value |-> <<"1">>, format |-> "pythonic"]}

\* a loaded file with its Map, before the first conversion
FileOf(m, d) ==
    /\ map = m
    /\ data = d
    /\ timeOffset = JUndef
    /\ ChronoSetOf(<<>>)

InitMap ==
    /\ offsetField \in OffsetFields
    /\ \E first \in BOOLEAN : \E f \in Formats : \E n \in 0..MaxRecords :
          \/ \E m \in MapsFrom(CsvBase, CsvTypeFields, CsvStartFields,
                               CsvEndFields) :
                \E d \in [1..n -> CsvRows] :
                    FileOf([m EXCEPT !.firstRow = first,
                                     !.timestampFormat = f], d)
          \/ \E m \in MapsFrom(JsonBase, JsonTypeFields, JsonStartFields,
                               JsonEndFields) :
                \E d \in [1..n -> JsonRecords] :
                    FileOf([m EXCEPT !.firstRow = first,
                                     !.timestampFormat = f], d)

\* the time offset getChronoSet computes from the input field
OffsetOf(field) == ConvertTimestamp(JStr(field.value), field.format).value

\* What getChronoSet does with the result r of Map.convert: a ChronoSet of
\* the events, or, after a TypeError, nothing more than the time offset and
\* the diagnostics already written.
ChronoSetFrom(offset, r) ==
    /\ timeOffset' = offset
    /\ errors' = errors \o r.diags
    /\ IF r.threw
       THEN UNCHANGED <<heap, chronos, chronos_backup, aliased>>
       ELSE /\ heap' = r.chronos
            /\ chronos' = [i \in 1..Len(r.chronos) |-> i]
            /\ chronos_backup' = [i \in 1..Len(r.chronos) |-> i]
            /\ aliased' = TRUE
    /\ last' = [NoOp EXCEPT !.op = "getChronoSet", !.prevOp = last.op,
                            !.threw = r.threw, !.prevThrew = last.threw,
                            !.heap0 = heap, !.errors0 = errors]
    /\ calls' = calls + 1

\* getChronoSet with a conversion that takes the first element off the file
getChronoSetShifting ==
    /\ calls < MaxConversions
    /\ ChronoSetFrom(OffsetOf(offsetField),
                     ConvertOf(map, data, OffsetOf(offsetField)))
    /\ data' = (IF data = <<>> THEN data ELSE Tail(data))
    /\ UNCHANGED <<map, offsetField>>

\* getChronoSet: sets the time offset from the input field, converts the file
\* (GetChronosFromDom, Map.convert) and builds a ChronoSet of the events.
getChronoSet ==
    /\ calls < MaxConversions
    /\ ChronoSetFrom(OffsetOf(offsetField),
                     ConvertOf(map, data, OffsetOf(offsetField)))
    /\ UNCHANGED <<map, data, offsetField>>

NextMap == getChronoSet

SpecMap == InitMap /\ [][NextMap]_vars

\* ------------------------------------------ the timestamp specification
Timestamps ==
    {JNull, JStr(<<>>), JStr(<<"7">>), JStr(<<"1", "0", "0", "0">>),
     JStr(<<"x">>), JStr(<<"1", "2", "x">>), JStr(<<"-", "5">>), JNum(5),
     JNum(0), JNaN}

\* the arguments of the calls: every timestamp under the formats of the
\* model, and the null timestamp under format "C" as well
TimestampCalls ==
    {<<ts, f>> : ts \in Timestamps, f \in Formats} \cup {<<JNull, "C">>}

InitTimestamp ==
    /\ NoFile
    /\ ChronoSetOf(<<>>)

\* a call of the static method Map.convertTimestamp(timestamp, format)
convertTimestamp(timestamp, format) ==
    /\ calls < MaxTimestampCalls
    /\ LET r == ConvertTimestamp(timestamp, format)
       IN /\ errors' = errors \o r.diags
          /\ last' = [NoOp EXCEPT !.op = "convertTimestamp",
                                  !.prevOp = last.op, !.errors0 = errors,
                                  !.timestamp = timestamp, !.format = format,
                                  !.value = r.value]
    /\ calls' = calls + 1
    /\ UNCHANGED <<heap, chronos, chronos_backup, aliased, map, data,
                   offsetField, timeOffset>>

NextTimestamp == \E c \in TimestampCalls : convertTimestamp(c[1], c[2])

SpecTimestamp == InitTimestamp /\ [][NextTimestamp]_vars

\* -------------------------------------------------- the CSV specification
\* free text of an event: absent, empty, and strings with separators in them
Texts ==
    {JNull, JStr(<<>>), JStr(<<"a">>), JStr(<<"a", ",", "b">>),
     JStr(<<"a", ",", "b", ",", "c">>), JStr(<<"a", ";", "b", ";", "c">>)}

\* start and end times in milliseconds
CsvTimes ==
    {<<JNum(0), JNull>>, <<JNum(0), JNum(2000)>>, <<JNum(1500), JNull>>,
     <<JNum(1500), JNaN>>,
     <<JNum(3723004), JNum(3784250)>>}

\* the events of the lists written by Csvify: a type and a title, and each
\* of the times above
CsvEvents ==
    {NewChrono(JStr(<<"T">>), JNull, JStr(<<"a", ",", "b">>), JNull, t[1], t[2],
               JNull) : t \in CsvTimes}

Separators == {",", ";"}

\* Either one event with any texts, or a list of events with any times.
InitCsv ==
    /\ NoFile
    /\ \/ \E title \in Texts : \E description \in Texts : \E tags \in Texts :
             \E t \in CsvTimes :
                 ChronoSetOf(<<NewChrono(JNull, JNull, title, description,
                                         t[1], t[2], tags)>>)
       \/ \E n \in 0..MaxCsvEvents : \E h \in [1..n -> CsvEvents] :
             ChronoSetOf(h)

\* a call of toCsv(sep) on the event at position i of the working set
toCsv(i, sep) ==
    /\ calls < MaxCsvCalls
    /\ LET r == ToCsv(heap[chronos[i]], sep)
       IN /\ errors' = errors \o r.diags
          /\ last' = [NoOp EXCEPT !.op = "toCsv", !.prevOp = last.op,
                                  !.heap0 = heap, !.errors0 = errors,
                                  !.ret = <<chronos[i]>>, !.sep = sep,
                                  !.value = JStr(r.row),
                                  !.csv = CsvFields(heap[chronos[i]], sep)]
    /\ calls' = calls + 1
    /\ UNCHANGED <<heap, chronos, chronos_backup, aliased, map, data,
                   offsetField, timeOffset>>

\* a call of toOldCsv(sep) on the event at position i of the working set
toOldCsv(i, sep) ==
    /\ calls < MaxCsvCalls
    /\ LET r == ToOldCsv(heap[chronos[i]], sep)
       IN /\ errors' = errors \o r.diags
          /\ last' = [NoOp EXCEPT !.op = "toOldCsv", !.prevOp = last.op,
                                  !.heap0 = heap, !.errors0 = errors,
                                  !.ret = <<chronos[i]>>, !.sep = sep,
                                  !.value = JStr(r.row),
                                  !.csv = OldCsvFields(heap[chronos[i]], sep)]
    /\ calls' = calls + 1
    /\ UNCHANGED <<heap, chronos, chronos_backup, aliased, map, data,
                   offsetField, timeOffset>>

\* a call of Csvify(useOldFormat) on the ChronoSet
Csvify(useOldFormat) ==
    /\ calls < MaxCsvCalls
    /\ LET r == CsvifyOf(heap, chronos, useOldFormat)
       IN /\ errors' = errors \o r.diags
          /\ last' = [NoOp EXCEPT !.op = "Csvify", !.prevOp = last.op,
                                  !.heap0 = heap, !.errors0 = errors,
                                  !.chronos0 = chronos,
                                  !.value = JStr(JoinLines(r.csv)),
                                  !.csv = r.csv]
    /\ calls' = calls + 1
    /\ UNCHANGED <<heap, chronos, chronos_backup, aliased, map, data,
                   offsetField, timeOffset>>

NextCsv ==
    \/ \E i \in 1..Len(chronos) : \E sep \in Separators : toCsv(i, sep)
    \/ \E i \in 1..Len(chronos) : \E sep \in Separators : toOldCsv(i, sep)
    \/ \E useOldFormat \in BOOLEAN : Csvify(useOldFormat)

SpecCsv == InitCsv /\ [][NextCsv]_vars

\* ------------------------------------------ the constructor specification
\* start and end arguments of the constructor; an undefined end is an end
\* left out of the call
StartArgs ==
    {JNum(0), JNaN, JNull, JUndef, JStr(<<>>), JNum(1500), JStr(<<"7">>)}
EndArgs == {JNull, JUndef, JNum(0), JNum(2000), JNaN}

InitChrono ==
    /\ NoFile
    /\ ChronoSetOf(<<>>)

\* new Chrono(null, null, null, null, start, end, null)
Chrono(start, end) ==
    /\ calls < MaxConstructions
    /\ heap' = Append(heap, NewChrono(JNull, JNull, JNull, JNull, start, end,
                                      JNull))
    /\ errors' = errors \o NewChronoDiags(start)
    /\ last' = [NoOp EXCEPT !.op = "Chrono", !.prevOp = last.op,
                            !.heap0 = heap, !.errors0 = errors,
                            !.ret = <<Len(heap) + 1>>,
                            !.start = start, !.end = end]
    /\ calls' = calls + 1
    /\ UNCHANGED <<chronos, chronos_backup, aliased, map, data, offsetField,
                   timeOffset>>

NextChrono == \E start \in StartArgs : \E end \in EndArgs : Chrono(start, end)

SpecChrono == InitChrono /\ [][NextChrono]_vars

\* ------------------------------------------------- reading the history
Range(s) == {s[i] : i \in DOMAIN s}
IsFSP == last.op = "FindSuccessivePairs"
IsJsonify == last.op = "Jsonify"

\* original index of an event: its position in the working set before the call
Idx0(x) == IndexOf(last.chronos0, x)

\* the end events merged into start event s by the last call
MergedEnds(s) == {last.tr[j][2] : j \in {j \in DOMAIN last.tr : last.tr[j][1] = s}}

\* the end events claimed by the starts processed before s
ClaimedBefore(s) ==
    {last.tr[j][2] : j \in {j \in DOMAIN last.tr : Idx0(last.tr[j][1]) < Idx0(s)}}

\* the end events still available to s: unclaimed and strictly after it
Available(s) ==
    {e \in Range(last.ends) : e \notin ClaimedBefore(s) /\ Idx0(e) > Idx0(s)}

Earliest(X) == CHOOSE e \in X : \A f \in X : Idx0(e) <= Idx0(f)

\* ------------------------------------------------------------------ claims

\* C1: the pairing of FindSuccessivePairs is one-to-one: no end event
\* supplies the end time of two different merged start events.
C1_OneToOne ==
    IsFSP =>
        \A i, j \in DOMAIN last.tr :
            last.tr[i][1] # last.tr[j][1] => last.tr[i][2] # last.tr[j][2]

\* C2: every start event that has a not-yet-claimed end event at a strictly
\* greater original index is merged with the earliest such end event.
C2_EarliestAvailable ==
    IsFSP =>
        \A s \in Range(last.starts) :
            Available(s) # {} => MergedEnds(s) = {Earliest(Available(s))}

\* C3: a start event with no end event available after it is dropped (it is
\* neither returned nor in the working set afterwards), and every returned
\* event is a start merged with an end located strictly after it.
C3_UnpairedDropped ==
    (IsFSP /\ ~last.threw) =>
        /\ \A s \in Range(last.starts) :
              Available(s) = {} => s \notin Range(last.ret) \cup Range(chronos)
        /\ \A s \in Range(last.ret) :
              /\ s \in Range(last.starts)
              /\ MergedEnds(s) # {}
              /\ \A e \in MergedEnds(s) : Idx0(e) > Idx0(s)

\* C4: when no event matches startFilter, or none matches endFilter, the
\* call does not fail, returns an empty list and removes no event.
C4_EmptySideNoEffect ==
    (IsFSP /\ (last.starts = <<>> \/ last.ends = <<>>)) =>
        /\ ~last.threw
        /\ last.ret = <<>>
        /\ chronos = last.chronos0

\* the start-matching and end-matching events strictly alternate in original
\* order (start, end, start, end, ...) and none matches both filters
Alternating ==
    /\ Range(last.starts) \cap Range(last.ends) = {}
    /\ Len(last.starts) = Len(last.ends)
    /\ \A i \in 1..Len(last.starts) :
          /\ Idx0(last.starts[i]) < Idx0(last.ends[i])
          /\ i < Len(last.starts) => Idx0(last.ends[i]) < Idx0(last.starts[i + 1])

\* C5: on an alternating list the call returns one merged event per start,
\* the i-th with the i-th start's start, the i-th end's start as its end and
\* their difference as its duration; no end event and no unmerged start
\* event is left in the working set.
C5_AlternatingPairs ==
    (IsFSP /\ Alternating) =>
        /\ ~last.threw
        /\ last.ret = last.starts
        /\ \A i \in 1..Len(last.starts) :
              LET m == heap[last.ret[i]]
                  s0 == last.heap0[last.starts[i]]
                  e0 == last.heap0[last.ends[i]]
              IN /\ m.start = s0.start
                 /\ m.end = e0.start
                 /\ m.duration = JsSub(e0.start, s0.start)
        /\ Range(chronos) \cap Range(last.ends) = {}
        /\ \A s \in Range(chronos) \cap Range(last.starts) : MergedEnds(s) # {}

\* W5: an alternating list with two pairs whose end events have an end time
\* of their own
W5_TwoAlternatingPairs ==
    /\ IsFSP
    /\ Alternating
    /\ Len(last.starts) = 2
    /\ \A i \in 1..2 : last.heap0[last.ends[i]].end # last.heap0[last.ends[i]].start

\* C6: every event's duration is its end minus its start, after construction
\* and after a merge has overwritten its end.
C6_DurationConsistent ==
    \A c \in DOMAIN heap : heap[c].duration = JsSub(heap[c].end, heap[c].start)

\* W6: a merge has given a start event a new end
W6_EndOverwritten ==
    /\ IsFSP
    /\ \E s \in Range(last.ret) :
          /\ MergedEnds(s) # {}
          /\ heap[s].end # last.heap0[s].end
          /\ heap[s].duration # last.heap0[s].duration

\* ------------------------------------------------ reading a Jsonify call
\* the key of the i-th event before the call, and after it
Key0(i) == last.heap0[chronos[i]].key
FinalKey(i) == heap[chronos[i]].key
Positions == 1..Len(chronos)
AllKeyed0 == \A i \in Positions : Truthy(Key0(i))

\* another event of the list had the same key before the call
Shared(i) == \E j \in Positions : j # i /\ Key0(j) = Key0(i)

\* how many earlier events of the list had the same key before the call
Occ(i) == Cardinality({j \in 1..(i - 1) : Key0(j) = Key0(i)})

\* C7: after Jsonify of events that all had non-empty keys, the final keys
\* are pairwise distinct and the returned map has one entry per event.
C7_KeysDistinct ==
    (IsJsonify /\ AllKeyed0) =>
        /\ \A i, j \in Positions : i # j => FinalKey(i) # FinalKey(j)
        /\ Cardinality(DOMAIN last.json) = Len(chronos)

SecondRun ==
    /\ IsJsonify
    /\ last.prevOp = "Jsonify"
    /\ \A i \in Positions : Truthy(last.prevHeap0[chronos[i]].key)

\* C10 as stated: the second of two Jsonify runs in a row assigns every
\* event the same final key as the first.
C10_SameKeysTwice == SecondRun => \A i \in Positions : FinalKey(i) = Key0(i)

\* C10 as amended: the second run assigns every event its first-run key
\* preceded by a further decimal counter, hence a different, longer key.
C10_PrefixedAgain ==
    SecondRun =>
        \A i \in Positions :
            /\ FinalKey(i) # Key0(i)
            /\ \E n \in 0..Len(chronos) :
                  FinalKey(i) = JStr(NumToString(n) \o ToStr(Key0(i)))

\* W10: a second run turned a first-run key "0A" into "00A"
W10_TwicePrefixed ==
    /\ SecondRun
    /\ \E i \in Positions :
          /\ last.prevHeap0[chronos[i]].key = A
          /\ Key0(i) = JStr(<<"0", "A">>)
          /\ FinalKey(i) = JStr(<<"0", "0", "A">>)

\* ------------------------------------------- reading a conversion
IsConversion == last.op = "getChronoSet"
Converted == IsConversion /\ ~last.threw

\* the elements of data Map.convert goes through, in order
Skipped == IF map.firstRow THEN 1 ELSE 0
Produced == 1..Len(chronos)

\* the element of data event i was made from, a CSV line split into its cells
DatumOf(i) ==
    LET x == data[i + Skipped]
    IN IF x.t = "string" THEN Cells(Split(x.s, map.sep)) ELSE x

\* the value one accessor resolves to in a datum, undefined where resolving
\* it throws
Resolved(acc, datum) ==
    IF TypeofObject(acc) THEN GetNestedValue(datum, acc).value
    ELSE GetProp(datum, acc)

TextFields == {"type", "key", "title", "description", "tags"}

\* C11: every event Map.convert produces has, in each text field configured
\* with an accessor list, the value of the first accessor in list order that
\* resolves to a truthy value, and null when no accessor of the list does.
C11_FirstTruthyAccessor ==
    Converted =>
        \A i \in Produced : \A k \in TextFields :
            map[k].t = "array" =>
                LET accs == map[k].a
                    hit == {j \in 1..Len(accs) :
                               Truthy(Resolved(accs[j], DatumOf(i)))}
                IN IF hit = {} THEN heap[i][k] = JNull
                   ELSE \E j \in hit :
                           /\ \A l \in hit : j <= l
                           /\ heap[i][k] = Resolved(accs[j], DatumOf(i))

\* W11: an event whose type came from the second accessor of its list, the
\* first one resolving to nothing
W11_FellBack ==
    /\ Converted
    /\ map.type.t = "array"
    /\ Len(map.type.a) = 2
    /\ \E i \in Produced :
          /\ ~Truthy(Resolved(map.type.a[1], DatumOf(i)))
          /\ Truthy(Resolved(map.type.a[2], DatumOf(i)))
          /\ heap[i].type = Resolved(map.type.a[2], DatumOf(i))

\* the cell of column c of the line event i was made from is a numeric string
NumericCell(i, c) ==
    /\ c < Len(DatumOf(i).a)
    /\ DatumOf(i).a[c + 1].s # <<>>
    /\ IsDigits(DatumOf(i).a[c + 1].s)

IsToCsv == last.op = "toCsv"
RowFields == Split(last.value.s, last.sep)
HasSep(s) == \E i \in 1..Len(s) : s[i] = last.sep

\* C13: the row toCsv(sep) returns splits on sep into exactly 9 fields, and
\* its title, description and tags fields (1, 2 and 9) hold no sep.
C13_RowWellFormed ==
    IsToCsv =>
        /\ Len(RowFields) = 9
        /\ ~HasSep(RowFields[1])
        /\ ~HasSep(RowFields[2])
        /\ ~HasSep(RowFields[9])

\* ------------------------------------------- reading a timestamp call
IsTimestampCall == last.op = "convertTimestamp"

\* C14: convertTimestamp(null, f) returns null and appends exactly one entry
\* to the diagnostics list, the error of convertTimestamp, for every format f.
C14_NullTimestamp ==
    (IsTimestampCall /\ last.timestamp = JNull) =>
        /\ last.value = JNull
        /\ errors = Append(last.errors0, Diag("error", "convertTimestamp"))

\* W14: a null timestamp was converted under format "pythonic" when the
\* diagnostics list already had an entry
W14_NullPythonic ==
    /\ IsTimestampCall
    /\ last.timestamp = JNull
    /\ last.format = "pythonic"
    /\ Len(last.errors0) = 1
    /\ Len(errors) = 2

\* a conversion of a file of JSON objects under a Map without a null field
JsonConversion ==
    /\ IsConversion
    /\ \A i \in 1..Len(data) : data[i].t = "object"
    /\ \A k \in PropertyNames : map[k] # JNull

\* C15: a record lacking an intermediate key of a nested accessor path does
\* not abort the batch: the conversion returns, with one event for every
\* element of data it goes through.
C15_MissingKeyNoAbort ==
    JsonConversion =>
        /\ ~last.threw
        /\ Len(chronos) = (IF Len(data) > Skipped THEN Len(data) - Skipped ELSE 0)

\* C16: the backup list of the ChronoSet holds exactly the events given to the
\* constructor, in the same order, whatever was called since.
C16_BackupUntouched == chronos_backup = [i \in 1..Len(heap) |-> i]

AbsentField(f) == f \in {JNull, JUndef, JArr(<<>>)}

\* C18: with an absent end accessor and a non-zero time offset every event
\* produced has end = start.
C18_AbsentEndIsStart ==
    (/\ Converted
     /\ AbsentField(map.end)
     /\ timeOffset.t = "number"
     /\ timeOffset.n # 0)
        => \A i \in Produced : heap[i].end = heap[i].start

\* C19: a Map with a null field converts without failing, and every event
\* produced holds null in that field (checked on the text fields, which the
\* event keeps as resolved).
C19_NullFieldIsNull ==
    IsConversion =>
        \A k \in PropertyNames :
            map[k] = JNull =>
                /\ ~last.threw
                /\ k \in TextFields => \A i \in Produced : heap[i][k] = JNull

\* events of the working set before the last call, by the filters of the call
MatchedStart(x) == StartMatches(last.heap0[x], last.startKey)
MatchedEnd(x) == EndMatches(last.heap0[x], last.startKey, last.endKey)
MatchedNeither(x) == ~MatchedStart(x) /\ ~MatchedEnd(x)

\* the last call returned and no event matched both of its filters
DisjointCall ==
    /\ IsFSP
    /\ ~last.threw
    /\ \A x \in Range(last.chronos0) : ~(MatchedStart(x) /\ MatchedEnd(x))

\* C20: after a call in which no event matches both filters, the working set
\* is the events that matched neither filter, in their original order,
\* followed by the events that matched the start filter.
C20_RemovedAndAppended ==
    DisjointCall =>
        chronos = SelectSeq(last.chronos0, MatchedNeither)
                      \o SelectSeq(last.chronos0, MatchedStart)

\* W20: a call that kept an unmatched event between a start and an end, and
\* moved the start behind it
W20_KeptBetween ==
    /\ DisjointCall
    /\ Len(last.chronos0) = 3
    /\ MatchedStart(last.chronos0[1])
    /\ MatchedNeither(last.chronos0[2])
    /\ MatchedEnd(last.chronos0[3])
    /\ chronos = <<last.chronos0[2], last.chronos0[1]>>

\* the end event of merge j as it was when that merge was made: as an
\* earlier merge of the same call left it when it is itself a start event
\* merged before, as it was when the call began otherwise
EndThen(j) ==
    IF \E i \in 1..(j - 1) : last.tr[i][1] = last.tr[j][2]
    THEN heap[last.tr[j][2]]
    ELSE last.heap0[last.tr[j][2]]

\* C21: after a merge, each of type, key, title and description of the start
\* event is its own earlier value when that was present and the end event's
\* value otherwise (the end event as it was at the merge), and its end is
\* the end event's start.
C21_StartPreferred ==
    IsFSP =>
        \A j \in DOMAIN last.tr :
            /\ \A k \in {"type", "key", "title", "description"} :
                  heap[last.tr[j][1]][k] =
                      (IF Truthy(last.heap0[last.tr[j][1]][k])
                       THEN last.heap0[last.tr[j][1]][k]
                       ELSE EndThen(j)[k])
            /\ heap[last.tr[j][1]].end = last.heap0[last.tr[j][2]].start

\* W21: a start event without key or title kept its type, took key and title
\* from its end event, and ends where that event starts
W21_TookFromEnd ==
    /\ IsFSP
    /\ \E p \in Range(last.tr) :
          /\ p[1] # p[2]
          /\ last.heap0[p[1]].type = S
          /\ last.heap0[p[1]].key = JNull
          /\ last.heap0[p[2]].type = E
          /\ last.heap0[p[2]].key = JStr(<<"k">>)
          /\ heap[p[1]].type = S
          /\ heap[p[1]].key = JStr(<<"k">>)
          /\ heap[p[1]].end = last.heap0[p[2]].start
          /\ last.heap0[p[2]].end # last.heap0[p[2]].start

\* the last call was given a string that does not begin with a number
NonNumericCall ==
    /\ IsTimestampCall
    /\ last.timestamp.t = "string"
    /\ DigitPrefix(IF last.timestamp.s # <<>> /\ last.timestamp.s[1] = "-"
                   THEN Tail(last.timestamp.s) ELSE last.timestamp.s) = <<>>

\* C22: convertTimestamp of a non-numeric string returns null and appends the
\* error of convertTimestamp to the diagnostics list.
C22_NonNumericIsNull ==
    NonNumericCall =>
        /\ last.value = JNull
        /\ errors = Append(last.errors0, Diag("error", "convertTimestamp"))

\* ------------------------------------------- reading a construction
IsConstruction == last.op = "Chrono"
Constructed == heap[last.ret[1]]

\* the end argument was null, zero or left out
EndDefaulted == last.end \in {JNull, JUndef, JNum(0)}

\* C23: constructing an event with a falsy start appends exactly one warning
\* to the diagnostics list and still yields the event, its end taken from
\* start when the end argument is null or zero; with a truthy start nothing
\* is appended.
C23_WarnOnFalsyStart ==
    IsConstruction =>
        /\ Len(heap) = Len(last.heap0) + 1
        /\ Constructed.start = last.start
        /\ IF Truthy(last.start)
           THEN errors = last.errors0
           ELSE /\ errors = Append(last.errors0, Diag("warn", "Chron.constructor"))
                /\ EndDefaulted => Constructed.end = last.start

\* W23: a second event was constructed with start 0 and no end, after a
\* first one that had been warned about
W23_ZeroStart ==
    /\ IsConstruction
    /\ last.start = JNum(0)
    /\ last.end = JNull
    /\ Len(last.errors0) = 1
    /\ Len(errors) = 2
    /\ Constructed.end = JNum(0)

IsToOldCsv == last.op = "toOldCsv"
IsCsvify == last.op = "Csvify"
Written == last.heap0[last.ret[1]]
LacksTime(c) == ~Truthy(c.start) \/ ~Truthy(c.end)

\* the events of the working set that lack a time
Lacking == {i \in 1..Len(chronos) : LacksTime(heap[chronos[i]])}

\* C24: toCsv and toOldCsv on an event lacking start or end append one error
\* to the diagnostics list and return the join of a complete array (9 and 7
\* elements) whose elements for the missing times are empty strings; Csvify
\* returns the join of the header and one row for each event.
C24_RowDespiteGap ==
    /\ (IsToCsv /\ LacksTime(Written)) =>
          /\ errors = Append(last.errors0, Diag("error", "toCsv"))
          /\ Len(last.csv) = 9
          /\ last.value.s = Join(last.csv, last.sep)
          /\ ~Truthy(Written.start) => last.csv[3] = <<>> /\ last.csv[4] = <<>>
          /\ ~Truthy(Written.end) => last.csv[5] = <<>> /\ last.csv[6] = <<>>
    /\ (IsToOldCsv /\ LacksTime(Written)) =>
          /\ errors = Append(last.errors0, Diag("error", "toOldCsv"))
          /\ Len(last.csv) = 7
          /\ last.value.s = Join(last.csv, last.sep)
          /\ ~Truthy(Written.start) => last.csv[1] = <<>>
          /\ ~Truthy(Written.end) => last.csv[2] = <<>>
    /\ IsCsvify =>
          /\ Len(last.csv) = 1 + Len(chronos)
          /\ last.csv[1] \in {CsvHeader, OldCsvHeader}
          /\ last.value.s = JoinLines(last.csv)
          /\ Len(errors) = Len(last.errors0) + Cardinality(Lacking)

\* W24: Csvify wrote two events of which one lacks a time, and toCsv wrote an
\* event that has a start and lacks an end
W24_GapWritten ==
    \/ /\ IsCsvify
       /\ Len(chronos) = 2
       /\ Cardinality(Lacking) = 1
       /\ Len(last.csv) = 3
    \/ /\ IsToCsv
       /\ Truthy(Written.start)
       /\ ~Truthy(Written.end)
       /\ last.csv[3] # <<>>
       /\ last.csv[5] = <<>>

\* ---------------------------------------------- the events of a conversion
Surviving == IF Len(data) > Skipped THEN Len(data) - Skipped ELSE 0

\* C26: a conversion that returns produces one event for each element of
\* data from index 1 on when firstRow is set and from index 0 otherwise, in
\* the order of data: as many events as elements gone through, event i made
\* from element i of those.
C26_OnePerRecord ==
    Converted =>
        /\ Len(chronos) = Surviving
        /\ \A i \in Produced :
              /\ chronos[i] = i
              /\ ~ConvertOne(map, data[i + Skipped], timeOffset).threw
              /\ heap[i] = ConvertOne(map, data[i + Skipped], timeOffset).chrono

\* W26: a file of two different elements converted with firstRow set gave one
\* event, another one of two different elements without firstRow gave two
\* different events
W26_HeaderSkipped ==
    /\ Converted
    /\ Len(data) = 2
    /\ data[1] # data[2]
    /\ \/ map.firstRow /\ Len(chronos) = 1
       \/ ~map.firstRow /\ Len(chronos) = 2 /\ heap[1] # heap[2]

\* ------------------------------------------------ events outside the filters
\* C27: a call of FindSuccessivePairs that returns leaves in the working set
\* every event of it that matched neither the start filter nor the end filter.
C27_UnmatchedStay ==
    (IsFSP /\ ~last.threw) =>
        \A x \in Range(last.chronos0) :
            MatchedNeither(x) => x \in Range(chronos)

\* ------------------------------------------------- what a pairing writes
\* C29: a call of FindSuccessivePairs leaves every field of every event that
\* did not match the start filter as it was, and leaves the start of every
\* event as it was: it writes type, key, title, description, end, duration,
\* tags and myPrimaryTagKey of events matching the start filter, nothing else.
C29_WritesStartsOnly ==
    IsFSP =>
        /\ DOMAIN heap = DOMAIN last.heap0
        /\ \A x \in DOMAIN heap :
              /\ ~MatchedStart(x) => heap[x] = last.heap0[x]
              /\ heap[x].start = last.heap0[x].start

\* W29: a start event was merged with an end event that is not a start event;
\* the start event changed and the end event did not
W29_EndUntouched ==
    /\ IsFSP
    /\ ~last.threw
    /\ \E j \in DOMAIN last.tr :
          /\ last.tr[j][1] # last.tr[j][2]
          /\ ~MatchedStart(last.tr[j][2])
          /\ heap[last.tr[j][1]] # last.heap0[last.tr[j][1]]
          /\ heap[last.tr[j][2]] = last.heap0[last.tr[j][2]]

\* ------------------------------------------------- an event starting at 0
\* C30: an event whose start is exactly 0 is well formed: its construction
\* put nothing on the diagnostics list, and toCsv puts nothing there either
\* and writes the time of day 00:00:00.000 and the seconds 0 of its start.
C30_ZeroStartWellFormed ==
    (IsToCsv /\ Written.start = JNum(0)) =>
        /\ last.errors0 = <<>>
        /\ errors = last.errors0
        /\ last.csv[3] = TimeOfDay(0)
        /\ last.csv[4] = <<"0">>

\* ------------------------------------------------ consolidating once more
Repeated == IsFSP /\ last.prevOp = "FindSuccessivePairs"

\* C28: a second call of FindSuccessivePairs with the same filters on the
\* working set the first call left returns, and leaves the working set and
\* every event as they were.
C28_SecondCallNoOp ==
    Repeated =>
        /\ ~last.threw
        /\ chronos = last.chronos0
        /\ heap = last.heap0

====
